---- MODULE Spec2Model ----
(***************************************************************************)
(* The request pipeline of the voice detector (src/voice_detector/app.py): *)
(* the rate limiter, the API key check, request validation, the staged     *)
(* feature extraction under asyncio.wait_for, classification, the metrics  *)
(* and the best-effort persistence.                                        *)
(*                                                                         *)
(* Units.  The clock `now` and every latency are whole seconds.  An audio  *)
(* duration is in tenths of a second (0.5 s = 5).  zcr_mean and            *)
(* flatness_mean are in units of 1/10000.  A confidence as the classifiers *)
(* return it is in millionths; round(confidence, 3) yields thousandths.    *)
(* A string (a header value, a key, a language code) is the sequence of    *)
(* its code points.                                                        *)
(***************************************************************************)
EXTENDS Integers, Sequences, FiniteSets, TLC

\* ------------------------------------------------------------- bounds
\* Requests a behaviour of Spec may receive.
MaxRequests == 2
\* Direct calls of the heuristic a behaviour of SpecHeuristic may make.
MaxCalls == 2
\* Requests a behaviour of SpecRate may receive.
MaxRateRequests == 102
\* GET requests a behaviour of SpecObs may receive.
MaxGets == 2
\* Requests a behaviour of SpecBurst may receive, and how many of them may
\* be suspended in their extraction at a time.
MaxBurstRequests == 102
MaxInflight == 2
\* Requests a behaviour of SpecRing may receive.
MaxRingRequests == 1002
\* Requests the second client of SpecIsolate may send.
MaxOther == 2

\* -------------------------------------------------- program constants
MAX_AUDIO_FILE_SIZE == 2 * 1024 * 1024
MIN_AUDIO_FILE_SIZE == 100
\* 30.0 s and 0.5 s, in tenths of a second
MAX_AUDIO_DURATION == 300
MIN_AUDIO_DURATION == 5
REQUEST_TIMEOUT == 10
RATE_LIMIT == 100
RATE_WINDOW == 60
MAX_REQUEST_TIMES == 1000
\* float("inf"): above every finite pitch variance
Infinity == 1000000

\* ------------------------------------------------------------ strings
\* "" and an absent header (None) are both falsy where the code tests them.
None == <<>>
\* The configured secret "k1"; "k2" is a wrong key; "k\xe9" holds a
\* non-ASCII character (header bytes are decoded as latin-1).
API_KEY == <<107, 49>>
WrongKey == <<107, 50>>
NonAsciiKey == <<107, 233>>
BearerWord == <<66, 101, 97, 114, 101, 114>>
bearer == <<98, 101, 97, 114, 101, 114>>
BasicWord == <<66, 97, 115, 105, 99>>
Space == <<32>>

Min(a, b) == IF a < b THEN a ELSE b
Max(a, b) == IF a > b THEN a ELSE b

\* str.lower()
lower(s) == [i \in 1..Len(s) |-> IF s[i] \in 65..90 THEN s[i] + 32 ELSE s[i]]

IsSpace(ch) == ch \in {9, 10, 13, 32}

\* str.split(): the maximal runs of non-whitespace characters
RECURSIVE SplitFrom(_, _, _, _)
SplitFrom(s, i, cur, out) ==
    IF i > Len(s)
    THEN IF cur = <<>> THEN out ELSE Append(out, cur)
    ELSE IF IsSpace(s[i])
         THEN SplitFrom(s, i + 1, <<>>, IF cur = <<>> THEN out ELSE Append(out, cur))
         ELSE SplitFrom(s, i + 1, Append(cur, s[i]), out)

split(s) == SplitFrom(s, 1, <<>>, <<>>)

IsAscii(s) == \A i \in 1..Len(s) : s[i] < 128

\* hmac.compare_digest on two str: a TypeError when either holds a
\* non-ASCII character, else whether they are equal.
compare_digest(a, b) ==
    IF ~IsAscii(a) \/ ~IsAscii(b) THEN "TypeError"
    ELSE IF a = b THEN "True" ELSE "False"

\* ------------------------------------------------------------ AuthGate
\* _check_api_key consulting X-Api-Key before the Authorization header.
_check_api_key_KeyFirst(header_value, x_api_key) ==
    LET parts == split(header_value)
    IN  IF x_api_key # None
        THEN compare_digest(x_api_key, API_KEY)
        ELSE IF header_value # None /\ Len(parts) = 2 /\ lower(parts[1]) = bearer
             THEN compare_digest(parts[2], API_KEY)
             ELSE "False"

_check_api_key(header_value, x_api_key) ==
    LET parts == split(header_value)
    IN  IF header_value # None /\ Len(parts) = 2 /\ lower(parts[1]) = bearer
        THEN compare_digest(parts[2], API_KEY)
        ELSE IF x_api_key # None
             THEN compare_digest(x_api_key, API_KEY)
             ELSE "False"

\* --------------------------------------------------------- RateLimiter
\* Prune keeping the timestamps exactly 60 s old.
Prune_KeepsSixty(window, t) == SelectSeq(window, LAMBDA ts : t - ts <= RATE_WINDOW)

\* The list comprehension of lines 127-130: the timestamps less than 60 s old.
Prune(window, t) == SelectSeq(window, LAMBDA ts : t - ts < RATE_WINDOW)

\* The window of client_ip, created empty on first use.
WindowOf(cl, client_ip) == IF client_ip \in DOMAIN cl THEN cl[client_ip] ELSE <<>>

\* SetWindow storing the window under every client.
SetWindow_Shared(cl, client_ip, w) == [c \in DOMAIN cl \cup {client_ip} |-> w]

SetWindow(cl, client_ip, w) ==
    [c \in DOMAIN cl \cup {client_ip} |-> IF c = client_ip THEN w ELSE cl[c]]

\* _rate_limit_check admitting without recording the timestamp.
_rate_limit_check_NoRecord(cl, client_ip, t) ==
    LET kept == Prune(WindowOf(cl, client_ip), t)
    IN  IF Len(kept) >= RATE_LIMIT
        THEN [ok |-> FALSE, clients |-> SetWindow(cl, client_ip, kept)]
        ELSE [ok |-> TRUE, clients |-> SetWindow(cl, client_ip, kept)]

\* _rate_limit_check refusing only above the ceiling.
_rate_limit_check_OffByOne(cl, client_ip, t) ==
    LET kept == Prune(WindowOf(cl, client_ip), t)
    IN  IF Len(kept) > RATE_LIMIT
        THEN [ok |-> FALSE, clients |-> SetWindow(cl, client_ip, kept)]
        ELSE [ok |-> TRUE, clients |-> SetWindow(cl, client_ip, Append(kept, t))]

\* _rate_limit_check at time t: the answer and the table it leaves.
_rate_limit_check(cl, client_ip, t) ==
    LET kept == Prune(WindowOf(cl, client_ip), t)
    IN  IF Len(kept) >= RATE_LIMIT
        THEN [ok |-> FALSE, clients |-> SetWindow(cl, client_ip, kept)]
        ELSE [ok |-> TRUE, clients |-> SetWindow(cl, client_ip, Append(kept, t))]

\* ----------------------------------------------------- RequestValidator
SUPPORTED == {<<101, 110>>, <<116, 97>>, <<104, 105>>, <<109, 108>>, <<116, 101>>}

\* A payload string: `data` characters of the base64 alphabet, then `pad`
\* characters "=", with `junk` other ASCII characters among them; `ascii`
\* is false when the string holds a non-ASCII character.
\* base64.b64decode (validate=False) raises on a non-ASCII str, drops the
\* characters outside the alphabet, and raises when the data characters
\* do not fill whole quanta with their padding.
b64decode(p) ==
    LET r == p.data % 4
    IN  IF ~p.ascii THEN [ok |-> FALSE, len |-> 0]
        ELSE IF r = 1 \/ (r = 2 /\ p.pad < 2) \/ (r = 3 /\ p.pad < 1)
             THEN [ok |-> FALSE, len |-> 0]
             ELSE [ok |-> TRUE, len |-> (3 * p.data) \div 4]

\* CheckSize rejecting a payload of exactly 2 MiB.
CheckSize_Exclusive(n) ==
    IF n >= MAX_AUDIO_FILE_SIZE THEN "Audio file exceeds 2097152 bytes"
    ELSE IF n < MIN_AUDIO_FILE_SIZE THEN "Audio file is too small"
    ELSE "ok"

\* The size checks of lines 293-301
CheckSize(n) ==
    IF n > MAX_AUDIO_FILE_SIZE THEN "Audio file exceeds 2097152 bytes"
    ELSE IF n < MIN_AUDIO_FILE_SIZE THEN "Audio file is too small"
    ELSE "ok"

\* Validate letting every request through.
Validate_AcceptsAll(language, payload) == "ok"

\* Validate decoding the payload before it looks at the language.
Validate_DecodeFirst(language, payload) ==
    LET lang == lower(language)
        audio_bytes == b64decode(payload)
    IN  IF ~audio_bytes.ok THEN "audio_base64 must be valid base64"
        ELSE IF lang \notin SUPPORTED THEN "Unsupported language"
        ELSE CheckSize(audio_bytes.len)

\* Lines 277-301: the language, then the decoding, then the size; the
\* detail of the first HTTPException raised, or "ok".
Validate(language, payload) ==
    LET lang == lower(language)
        audio_bytes == b64decode(payload)
    IN  IF lang \notin SUPPORTED THEN "Unsupported language"
        ELSE IF ~audio_bytes.ok THEN "audio_base64 must be valid base64"
        ELSE CheckSize(audio_bytes.len)

\* ------------------------------------------------- ClassifierDispatcher
\* HeuristicScore without the cap of the pitch variance at 500.
HeuristicScore_NoCap(feats) ==
    LET s_f0 == 10000 - (feats.f0_var * 10000) \div 500
        s_zcr == 10000 - Min((feats.zcr_mean * 10000) \div 5000, 10000)
        s_spec == 10000 - Min((feats.spec_centroid_var * 10000) \div 5000, 10000)
        s_flat == 10000 - Min(feats.flatness_mean, 10000)
    IN  45 * s_f0 + 25 * s_zcr + 20 * s_spec + 10 * s_flat

\* _classify_heuristic: the confidence in millionths.  The terms s_* are
\* in units of 1/10000, the weights in hundredths.  `dur` (line 167) is
\* computed and never used.
HeuristicScore(feats) ==
    LET f0_var == feats.f0_var
        zcr == feats.zcr_mean
        spec_cent_var == feats.spec_centroid_var
        flatness == feats.flatness_mean
        s_f0 == 10000 - (Min(f0_var, 500) * 10000) \div 500
        s_zcr == 10000 - Min((zcr * 10000) \div 5000, 10000)
        s_spec == 10000 - Min((spec_cent_var * 10000) \div 5000, 10000)
        s_flat == 10000 - Min(flatness, 10000)
    IN  45 * s_f0 + 25 * s_zcr + 20 * s_spec + 10 * s_flat

Label(confidence) == IF confidence >= 500000 THEN "AI_GENERATED" ELSE "HUMAN"

_classify_heuristic(feats) ==
    LET confidence == Max(0, Min(1000000, HeuristicScore(feats)))
    IN  [label |-> Label(confidence), confidence |-> confidence]

\* _classify_ml answering from the failed call instead of the heuristic.
_classify_ml_NoFallback(feats, ml) == [label |-> Label(ml.proba), confidence |-> ml.proba]

\* _classify_ml: `ml` is what scaler.transform / model.predict_proba do on
\* this call: raise, or give the probability of AI_GENERATED in millionths.
_classify_ml(feats, ml) ==
    IF ml.raises
    THEN _classify_heuristic(feats)
    ELSE [label |-> Label(ml.proba), confidence |-> ml.proba]

\* round(confidence, 3): millionths to thousandths, ties to even.
round3(confidence) ==
    LET q == confidence \div 1000
        r == confidence % 1000
    IN  IF r > 500 \/ (r = 500 /\ q % 2 = 1) THEN q + 1 ELSE q

\* ---------------------------------------------------------------- state
VARIABLES
    now,              \* datetime.utcnow(), seconds
    MODEL_AVAILABLE,  \* whether the trained model was loaded at startup
    clients,          \* _rate_limit_check.clients: client -> timestamps
    metrics,          \* the metrics dictionary
    db,               \* the committed rows of table detections
    tmpfiles,         \* the staged temporary files on disk, by request
    inflight,         \* the requests suspended in asyncio.wait_for
    nextId,           \* the requests received so far, plus one
    last,             \* the request that reached a terminal state last
    admittedLog,      \* history: client -> the times of its admitted requests
    call,             \* the last direct call of _classify_heuristic (SpecHeuristic)
    reply,            \* the last response of GET /metrics or GET /health
    loop,             \* the request whose handler holds the event loop, or 0
    latencies         \* history: the latency of every classified request, in order

vars == <<now, MODEL_AVAILABLE, clients, metrics, db, tmpfiles, inflight, nextId, last,
          admittedLog, call, reply, loop, latencies>>

\* ModelVersion naming the heuristic whatever was loaded.
ModelVersion_Heuristic == "heuristic"

\* metadata["version"] of the trained model (train_model.py)
ModelVersion == IF MODEL_AVAILABLE THEN "1.0" ELSE "heuristic"

NoFeats == [duration |-> 0, f0_var |-> 0, zcr_mean |-> 0, spec_centroid_var |-> 0,
            flatness_mean |-> 0]

\* What happened in the extraction and after it, kept with the response:
\* whether librosa decoded the file, the decoded duration, the seconds the
\* extraction ran, the features, what the trained model did, what the
\* database did, and the classification before rounding.
NoExtraction == [started |-> FALSE, decodable |-> FALSE, duration |-> 0, elapsed |-> 0,
                 feats |-> NoFeats, ml |-> [raises |-> FALSE, proba |-> 0],
                 store |-> "none", classified |-> FALSE, label |-> "none", raw |-> 0]

NoRequest == [header_value |-> None, x_api_key |-> None, language |-> None,
              payload |-> [data |-> 0, pad |-> 0, junk |-> 0, ascii |-> TRUE],
              staging |-> "none"]

NoLast == [id |-> 0, client |-> "none", status |-> 0, detail |-> "none",
           result |-> "none", confidence |-> 0, admitted |-> FALSE,
           req |-> NoRequest, ext |-> NoExtraction, stages |-> <<>>]

\* No GET request answered yet.
NoReply == [endpoint |-> "none", status |-> 0, body |-> <<>>,
            header_value |-> None, x_api_key |-> None, n |-> 0]

Init ==
    /\ now = 0
    /\ MODEL_AVAILABLE \in BOOLEAN
    /\ clients = <<>>
    /\ metrics = [total_requests |-> 0, successful_detections |-> 0,
                  failed_requests |-> 0, auth_failures |-> 0,
                  by_language |-> <<>>, by_result |-> <<>>,
                  request_times |-> <<>>, last_reset |-> 0]
    /\ db = {}
    /\ tmpfiles = {}
    /\ inflight = {}
    /\ nextId = 1
    /\ last = NoLast
    /\ admittedLog = <<>>
    /\ call = [n |-> 0, feats |-> NoFeats, label |-> "none", confidence |-> 0]
    /\ reply = NoReply
    /\ loop = 0
    /\ latencies = <<>>

\* defaultdict(int)[k] += 1
Incr(d, k) == [x \in DOMAIN d \cup {k} |-> IF x \in DOMAIN d THEN (IF x = k THEN d[x] + 1 ELSE d[x]) ELSE 1]

Failed(m) == [m EXCEPT !.failed_requests = @ + 1]

\* raise HTTPException(status_code, detail): the request ends here.
Rejected(id, client, status, detail, admitted, req, ext, stages) ==
    [id |-> id, client |-> client, status |-> status, detail |-> detail,
     result |-> "none", confidence |-> 0, admitted |-> admitted,
     req |-> req, ext |-> ext, stages |-> stages]

\* detect_voice from its entry to the suspension in asyncio.wait_for
\* (lines 256-322), or to the HTTPException that ends it before.
Detect(client_ip, header_value, x_api_key, language, payload) ==
    LET request_id == nextId
        req == [header_value |-> header_value, x_api_key |-> x_api_key,
                language |-> language, payload |-> payload, staging |-> "none"]
        m1 == [metrics EXCEPT !.total_requests = @ + 1]
        rl == _rate_limit_check(clients, client_ip, now)
        auth == _check_api_key(header_value, x_api_key)
        lang == lower(language)
        audio_bytes == b64decode(payload)
        invalid == Validate(language, payload)
        End(status, detail, m, stages) ==
            /\ metrics' = m
            /\ last' = Rejected(request_id, client_ip, status, detail, rl.ok, req,
                                NoExtraction, stages)
            /\ UNCHANGED <<tmpfiles, inflight>>
    IN  /\ nextId' = nextId + 1
        /\ clients' = rl.clients
        /\ admittedLog' = IF rl.ok
                          THEN SetWindow(admittedLog, client_ip,
                                         Append(WindowOf(admittedLog, client_ip), now))
                          ELSE admittedLog
        /\ UNCHANGED <<now, MODEL_AVAILABLE, db, call, reply, latencies>>
        /\ IF ~rl.ok
           THEN End(429, "Too many requests", Failed(m1), <<"rate_limit">>)
           ELSE IF auth = "TypeError"
           THEN End(500, "Internal server error", Failed(m1), <<"rate_limit", "auth">>)
           ELSE IF auth = "False"
           THEN End(401, "Unauthorized", [m1 EXCEPT !.auth_failures = @ + 1],
                    <<"rate_limit", "auth">>)
           ELSE IF invalid # "ok"
           THEN End(400, invalid, Failed(m1), <<"rate_limit", "auth", "validate">>)
           ELSE \E staging \in {"ok", "create_fails", "write_fails"} :
                  IF staging = "ok"
                  THEN /\ tmpfiles' = tmpfiles \cup {request_id}
                       /\ inflight' = inflight \cup
                             {[id |-> request_id, client |-> client_ip, lang |-> lang,
                               nbytes |-> audio_bytes.len, start_time |-> now,
                               temp_file |-> request_id,
                               req |-> [req EXCEPT !.staging = staging]]}
                       /\ metrics' = m1
                       /\ last' = last
                  ELSE \* NamedTemporaryFile or f.write raises: the inner try
                       \* with its os.remove is never entered (lines 305-309)
                       /\ tmpfiles' = IF staging = "write_fails"
                                      THEN tmpfiles \cup {request_id} ELSE tmpfiles
                       /\ metrics' = Failed(m1)
                       /\ last' = Rejected(request_id, client_ip, 400,
                                     "Could not decode audio or extract features", TRUE,
                                     [req EXCEPT !.staging = staging], NoExtraction,
                                     <<"rate_limit", "auth", "validate", "extract">>)
                       /\ inflight' = inflight

\* --------------------------------------------------------------- inputs
Clients == {"c1"}

\* Authorization header values: absent, "Bearer k1", "Bearer k2",
\* "Bearer k\xe9", "bearer k1", "Basic k1", "Bearer"
AuthHeaders ==
    {None, BearerWord \o Space \o API_KEY, BearerWord \o Space \o WrongKey,
     BearerWord \o Space \o NonAsciiKey, bearer \o Space \o API_KEY,
     BasicWord \o Space \o API_KEY, BearerWord}

\* X-Api-Key header values: absent, "k1", "k2"
ApiKeyHeaders == {None, API_KEY, WrongKey}

\* "en", "EN", "fr"
Languages == {<<101, 110>>, <<69, 78>>, <<102, 114>>}

Payload(data, pad, junk, ascii) == [data |-> data, pad |-> pad, junk |-> junk, ascii |-> ascii]

\* Payloads that decode to 99, 100, 2 MiB and 2 MiB + 1 bytes, one whose
\* data characters leave a quantum unfinished, and "!!!!" (decodes to b"").
Payloads ==
    {Payload(132, 0, 0, TRUE), Payload(134, 2, 0, TRUE), Payload(2796203, 1, 0, TRUE),
     Payload(2796204, 0, 0, TRUE), Payload(133, 0, 0, TRUE), Payload(0, 0, 4, TRUE)}

Request(header_value, x_api_key, language, payload) ==
    [header_value |-> header_value, x_api_key |-> x_api_key, language |-> language,
     payload |-> payload]

\* The requests of Spec: every pair of credential headers on a payload of
\* 99 bytes; the valid Bearer key with "en" on every payload but that of
\* 2 MiB, and with "EN" and "fr" on every payload but that of 100 bytes; three
\* wrong or missing credentials with a supported and an unsupported
\* language on payloads of 100 bytes, of 2 MiB + 1 and undecodable; and
\* the valid X-Api-Key on a payload of 2 MiB.
Requests ==
    {Request(h, k, <<101, 110>>, Payload(132, 0, 0, TRUE)) :
        h \in AuthHeaders, k \in ApiKeyHeaders}
    \cup {Request(BearerWord \o Space \o API_KEY, None, <<101, 110>>, p) :
        p \in Payloads \ {Payload(2796203, 1, 0, TRUE)}}
    \cup {Request(BearerWord \o Space \o API_KEY, None, l, p) :
        l \in {<<69, 78>>, <<102, 114>>}, p \in Payloads \ {Payload(134, 2, 0, TRUE)}}
    \cup {Request(c[1], c[2], l, p) :
        c \in {<<BearerWord \o Space \o WrongKey, None>>, <<None, None>>, <<None, WrongKey>>},
        l \in {<<101, 110>>, <<102, 114>>},
        p \in {Payload(134, 2, 0, TRUE), Payload(2796204, 0, 0, TRUE), Payload(133, 0, 0, TRUE)}}
    \cup {Request(None, API_KEY, <<101, 110>>, Payload(2796203, 1, 0, TRUE))}

Feats(duration, f0_var, zcr_mean, spec_centroid_var, flatness_mean) ==
    [duration |-> duration, f0_var |-> f0_var, zcr_mean |-> zcr_mean,
     spec_centroid_var |-> spec_centroid_var, flatness_mean |-> flatness_mean]

\* What librosa makes of the staged bytes, and the seconds it takes: no
\* audio at all, or audio of a duration with the features extract_features
\* computes from it.  Extractions run within the 10 s deadline or beyond.
Audio(decodable, feats, elapsed) == [decodable |-> decodable, feats |-> feats, elapsed |-> elapsed]

Audios ==
    {Audio(FALSE, NoFeats, 1),
     Audio(TRUE, Feats(4, 10, 100, 100, 1000), 1),
     Audio(TRUE, Feats(5, 10, 100, 100, 1000), 1),
     Audio(TRUE, Feats(300, Infinity, 0, 0, 5040), 11),
     Audio(TRUE, Feats(301, 10, 100, 100, 1000), 11)}

\* The trained model on one call: raises, or a probability (millionths).
NoMl == [raises |-> FALSE, proba |-> 0]
MlOutcomes == {[raises |-> TRUE, proba |-> 0], [raises |-> FALSE, proba |-> 499600],
               [raises |-> FALSE, proba |-> 873000]}

\* The database on one request: add and commit succeed; add raises; commit
\* raises; or one of them raises and db.rollback() raises too.
StoreOutcomes == {"ok", "add_fails", "commit_fails", "rollback_fails"}

\* asyncio.wait_for(coro, timeout): TimeoutError is raised only when the
\* timer fires while the awaited coroutine is suspended; a coroutine that
\* never yields to the event loop runs to its end first, and its result
\* (or exception) is what wait_for gives, however long it took.
wait_for(outcome, elapsed, yields) ==
    IF yields /\ elapsed > REQUEST_TIMEOUT THEN "TimeoutError" ELSE outcome

\* load_and_extract (lines 310-320) holds no await: librosa.load and
\* extract_features are plain calls that block the event loop.
load_and_extract_yields == FALSE

\* load_and_extract refusing audio of exactly 30 s.
load_and_extract_ExclusiveMax(audio) ==
    IF ~audio.decodable THEN "Exception"
    ELSE IF audio.feats.duration >= MAX_AUDIO_DURATION THEN "ValueError"
    ELSE IF audio.feats.duration < MIN_AUDIO_DURATION THEN "ValueError"
    ELSE "feats"

\* load_and_extract on a staged file: librosa.load raises on bytes it
\* cannot decode, the duration checks raise ValueError.
load_and_extract(audio) ==
    IF ~audio.decodable THEN "Exception"
    ELSE IF audio.feats.duration > MAX_AUDIO_DURATION THEN "ValueError"
    ELSE IF audio.feats.duration < MIN_AUDIO_DURATION THEN "ValueError"
    ELSE "feats"

\* AppendTime cutting to the first 1000 samples.
AppendTime_KeepsOldest(times, elapsed) ==
    LET t == Append(times, elapsed)
    IN  IF Len(t) > MAX_REQUEST_TIMES THEN SubSeq(t, 1, MAX_REQUEST_TIMES) ELSE t

\* request_times.append(elapsed), cut to the last 1000 (lines 359-361)
AppendTime(times, elapsed) ==
    LET t == Append(times, elapsed)
    IN  IF Len(t) > MAX_REQUEST_TIMES
        THEN SubSeq(t, Len(t) - MAX_REQUEST_TIMES + 1, Len(t))
        ELSE t

\* Detection keyed by a constant instead of the request's identifier.
Detection_SharedKey(id, lang, result, confidence, model_version, t) ==
    [id |-> 0, language |-> lang, result |-> result, confidence |-> confidence,
     model_version |-> model_version, timestamp |-> t]

\* The row db.add / db.commit write (lines 367-375)
Detection(id, lang, result, confidence, model_version, t) ==
    [id |-> id, language |-> lang, result |-> result, confidence |-> confidence,
     model_version |-> model_version, timestamp |-> t]

\* Resumed leaving the resumed handler among the suspended ones.
Resumed_StaysSuspended(suspended, r) == suspended

\* The handlers still suspended once the handler of r has resumed: the
\* await of line 322 returns (or raises) once.
Resumed(suspended, r) == suspended \ {r}

\* detect_voice from the start of load_and_extract to its end (lines
\* 310-390).  The extraction blocks the event loop for `elapsed` seconds.
Extract(r, audio) ==
    LET elapsed == audio.elapsed
        outcome == wait_for(load_and_extract(audio), elapsed, load_and_extract_yields)
        ext0 == [NoExtraction EXCEPT !.started = TRUE, !.decodable = audio.decodable,
                                     !.duration = audio.feats.duration,
                                     !.elapsed = elapsed]
        upto == <<"rate_limit", "auth", "validate", "extract">>
        End(detail) ==
            /\ metrics' = Failed(metrics)
            /\ last' = Rejected(r.id, r.client, 400, detail, TRUE, r.req, ext0, upto)
            /\ db' = db
            /\ latencies' = latencies
    IN  /\ r \in inflight
        /\ inflight' = Resumed(inflight, r)
        /\ now' = now + elapsed
        \* finally: os.remove(temp_file)
        /\ tmpfiles' = tmpfiles \ {r.temp_file}
        /\ UNCHANGED <<MODEL_AVAILABLE, clients, nextId, admittedLog, call, reply>>
        /\ IF outcome = "TimeoutError" THEN End("Audio processing timeout")
           ELSE IF outcome = "ValueError" THEN End("Invalid audio")
           ELSE IF outcome = "Exception"
           THEN End("Could not decode audio or extract features")
           ELSE \E ml \in (IF MODEL_AVAILABLE THEN MlOutcomes ELSE {NoMl}),
                   store \in StoreOutcomes :
                  LET feats == audio.feats
                      c == IF MODEL_AVAILABLE THEN _classify_ml(feats, ml)
                                              ELSE _classify_heuristic(feats)
                      result == c.label
                      confidence == round3(c.confidence)
                      m1 == [metrics EXCEPT
                               !.successful_detections = @ + 1,
                               !.by_language = Incr(@, r.lang),
                               !.by_result = Incr(@, result),
                               !.request_times = AppendTime(@, (now + elapsed) - r.start_time)]
                      ext == [ext0 EXCEPT !.feats = feats, !.ml = ml, !.store = store,
                                          !.classified = TRUE, !.label = c.label,
                                          !.raw = c.confidence]
                      done == upto \o <<"classify", "metrics", "persist">>
                  IN  /\ latencies' = Append(latencies, (now + elapsed) - r.start_time)
                      /\ IF store = "rollback_fails"
                         THEN \* db.rollback() raises out of the handler of line
                              \* 376: the outer except Exception answers 500
                              /\ metrics' = Failed(m1)
                              /\ db' = db
                              /\ last' = Rejected(r.id, r.client, 500, "Internal server error",
                                                  TRUE, r.req, ext, done)
                         ELSE /\ metrics' = m1
                              /\ db' = IF store = "ok"
                                       THEN db \cup {Detection(r.id, r.lang, result, confidence,
                                                               ModelVersion, now + elapsed)}
                                       ELSE db
                              /\ last' = [id |-> r.id, client |-> r.client, status |-> 200,
                                          detail |-> "none", result |-> result,
                                          confidence |-> confidence, admitted |-> TRUE,
                                          req |-> r.req, ext |-> ext,
                                          stages |-> done \o <<"respond">>]

\* sum(list) of Python
RECURSIVE SumOf(_)
SumOf(times) == IF times = <<>> THEN 0 ELSE Head(times) + SumOf(Tail(times))

\* metadata["model_type"] of the trained model (train_model.py)
ModelType == IF MODEL_AVAILABLE THEN "RandomForestClassifier" ELSE "heuristic"

\* Snapshot deriving the total from the outcome counters instead of
\* reading it.
Snapshot_DerivedTotal(m, t) ==
    [uptime_seconds |-> t - m.last_reset,
     total_requests |-> m.successful_detections + m.failed_requests + m.auth_failures,
     successful_detections |-> m.successful_detections,
     failed_requests |-> m.failed_requests,
     auth_failures |-> m.auth_failures,
     success_rate |-> IF m.total_requests > 0
                      THEN (m.successful_detections * 1000) \div m.total_requests ELSE 0,
     avg_request_time_ms |-> IF m.request_times # <<>>
                             THEN (SumOf(m.request_times) * 1000) \div Len(m.request_times)
                             ELSE 0,
     by_language |-> m.by_language,
     by_result |-> m.by_result,
     model_version |-> ModelVersion,
     model_type |-> ModelType]

\* The dictionary get_metrics returns (lines 208-229), read from the
\* metrics m at time t.  success_rate is in thousandths, rounded down;
\* avg_request_time_ms in milliseconds, rounded down.
Snapshot(m, t) ==
    [uptime_seconds |-> t - m.last_reset,
     total_requests |-> m.total_requests,
     successful_detections |-> m.successful_detections,
     failed_requests |-> m.failed_requests,
     auth_failures |-> m.auth_failures,
     success_rate |-> IF m.total_requests > 0
                      THEN (m.successful_detections * 1000) \div m.total_requests ELSE 0,
     avg_request_time_ms |-> IF m.request_times # <<>>
                             THEN (SumOf(m.request_times) * 1000) \div Len(m.request_times)
                             ELSE 0,
     by_language |-> m.by_language,
     by_result |-> m.by_result,
     model_version |-> ModelVersion,
     model_type |-> ModelType]

\* GET /metrics (lines 201-229): the handler holds no await.  An exception
\* of the key comparison leaves the handler and is answered 500.
get_metrics(header_value, x_api_key) ==
    LET auth == _check_api_key(header_value, x_api_key)
        Answer(status, body) ==
            reply' = [endpoint |-> "metrics", status |-> status, body |-> body,
                      header_value |-> header_value, x_api_key |-> x_api_key,
                      n |-> reply.n + 1]
    IN  /\ IF auth = "TypeError" THEN Answer(500, <<>>)
           ELSE IF auth = "False" THEN Answer(401, <<>>)
           ELSE Answer(200, Snapshot(metrics, now))
        /\ UNCHANGED <<now, MODEL_AVAILABLE, clients, metrics, db, tmpfiles, inflight, nextId,
                       last, admittedLog, call, loop, latencies>>

\* GET /health (lines 195-198): no credentials are read.
health_check(header_value, x_api_key) ==
    /\ reply' = [endpoint |-> "health", status |-> 200,
                 body |-> [status |-> "ok",
                           model |-> IF MODEL_AVAILABLE THEN "ml" ELSE "heuristic"],
                 header_value |-> header_value, x_api_key |-> x_api_key,
                 n |-> reply.n + 1]
    /\ UNCHANGED <<now, MODEL_AVAILABLE, clients, metrics, db, tmpfiles, inflight, nextId,
                   last, admittedLog, call, loop, latencies>>

\* The clock moves on while no handler runs.
Tick(d) ==
    /\ now' = now + d
    /\ UNCHANGED <<MODEL_AVAILABLE, clients, metrics, db, tmpfiles, inflight, nextId, last,
                   admittedLog, call, reply, loop, latencies>>

\* _classify_heuristic called on its own, as the n-th call.
Classify(feats) ==
    LET c == _classify_heuristic(feats)
    IN  /\ call' = [n |-> call.n + 1, feats |-> feats, label |-> c.label,
                    confidence |-> c.confidence]
        /\ UNCHANGED <<now, MODEL_AVAILABLE, clients, metrics, db, tmpfiles, inflight,
                       nextId, last, admittedLog, reply, loop, latencies>>

\* ------------------------------------------------------- specifications
Receive ==
    /\ nextId <= MaxRequests
    /\ \E client_ip \in Clients, rq \in Requests :
          Detect(client_ip, rq.header_value, rq.x_api_key, rq.language, rq.payload)
    /\ UNCHANGED loop

Resume == (\E r \in inflight, audio \in Audios : Extract(r, audio)) /\ UNCHANGED loop

Next == Receive \/ Resume

Spec == Init /\ [][Next]_vars

\* The two GET endpoints beside POST /detect.  The credentials of a GET:
\* none, "Bearer k1", X-Api-Key k1, "Bearer k2", X-Api-Key k2, and
\* "Bearer k\xe9".
Credentials ==
    {<<None, None>>, <<BearerWord \o Space \o API_KEY, None>>, <<None, API_KEY>>,
     <<BearerWord \o Space \o WrongKey, None>>, <<None, WrongKey>>,
     <<BearerWord \o Space \o NonAsciiKey, None>>}

\* The POST requests of SpecObs: a valid one, one with a wrong key, one
\* with an unsupported language.
ObsRequests ==
    {Request(BearerWord \o Space \o API_KEY, None, <<101, 110>>, Payload(134, 2, 0, TRUE)),
     Request(BearerWord \o Space \o WrongKey, None, <<101, 110>>, Payload(134, 2, 0, TRUE)),
     Request(BearerWord \o Space \o API_KEY, None, <<102, 114>>, Payload(134, 2, 0, TRUE))}

\* The audio of SpecObs: undecodable, or 0.5 s extracted in 1 s.
ObsAudios == {Audio(FALSE, NoFeats, 1), Audio(TRUE, Feats(5, 10, 100, 100, 1000), 1)}

ObsReceive ==
    /\ nextId <= MaxRequests
    /\ \E rq \in ObsRequests :
          Detect("c1", rq.header_value, rq.x_api_key, rq.language, rq.payload)
    /\ UNCHANGED loop

ObsResume == (\E r \in inflight, audio \in ObsAudios : Extract(r, audio)) /\ UNCHANGED loop

GetMetrics == reply.n < MaxGets /\ \E c \in Credentials : get_metrics(c[1], c[2])

GetHealth == reply.n < MaxGets /\ \E c \in Credentials : health_check(c[1], c[2])

NextObs == ObsReceive \/ ObsResume \/ GetMetrics \/ GetHealth

SpecObs == Init /\ [][NextObs]_vars

\* The event loop runs every task that is ready: a handler suspended in
\* asyncio.wait_for resumes once load_and_extract has returned or raised.
ResumeOf(id) ==
    (\E r \in inflight, audio \in Audios : r.id = id /\ Extract(r, audio)) /\ UNCHANGED loop

\* The requests of SpecLive: those of SpecObs and one whose key holds a
\* non-ASCII character; every audio and every outcome of the model and of
\* the database.
LiveRequests ==
    ObsRequests
    \cup {Request(BearerWord \o Space \o NonAsciiKey, None, <<101, 110>>,
                  Payload(134, 2, 0, TRUE))}

LiveReceive ==
    /\ nextId <= MaxRequests
    /\ \E rq \in LiveRequests :
          Detect("c1", rq.header_value, rq.x_api_key, rq.language, rq.payload)
    /\ UNCHANGED loop

NextLive == LiveReceive \/ \E id \in 1..MaxRequests : ResumeOf(id)

SpecLive == Init /\ [][NextLive]_vars /\ \A id \in 1..MaxRequests : WF_vars(ResumeOf(id))

\* The rate limiter at its ceiling: one client sending requests with a
\* wrong key (each admitted one ends 401), the clock at 0, 59 and 60 s.
RateTimes == {59, 60}

RateReceive ==
    /\ nextId <= MaxRateRequests
    /\ Detect("c1", BearerWord \o Space \o WrongKey, None, <<101, 110>>,
              Payload(132, 0, 0, TRUE))
    /\ UNCHANGED loop

RateClock == \E t \in RateTimes : t > now /\ Tick(t - now)

NextRate == RateReceive \/ RateClock

SpecRate == Init /\ [][NextRate]_vars

\* Concurrent requests of one client at the ceiling of the rate limiter.
\* The client sends requests with a wrong key (each ends in the step that
\* receives it) and, from the request before its hundredth on, valid
\* requests too, which stay suspended in asyncio.wait_for while further
\* requests of the client are checked; the clock is at 0 or at 60 s.
BurstAudio == Audio(FALSE, NoFeats, 0)

BurstReceive ==
    /\ nextId <= MaxBurstRequests
    /\ \/ Detect("c1", BearerWord \o Space \o WrongKey, None, <<101, 110>>,
                 Payload(134, 2, 0, TRUE))
       \/ /\ nextId >= RATE_LIMIT - 1
          /\ Cardinality(inflight) < MaxInflight
          /\ Detect("c1", BearerWord \o Space \o API_KEY, None, <<101, 110>>,
                    Payload(134, 2, 0, TRUE))
    /\ UNCHANGED loop

BurstResume == (\E r \in inflight : Extract(r, BurstAudio)) /\ UNCHANGED loop

BurstClock == now < RATE_WINDOW /\ Tick(RATE_WINDOW - now)

NextBurst == BurstReceive \/ BurstResume \/ BurstClock

SpecBurst == Init /\ [][NextBurst]_vars

\* A slow persistence backend.  db.add and db.commit (lines 374-375) are
\* synchronous calls made by the coroutine itself: from the resumption of
\* the handler to its return there is no await, so the thread of the event
\* loop is inside db.commit() until the backend answers and runs no other
\* handler meanwhile.  `loop` is the request whose handler is in that call.
\* What the handler wrote before the call becomes visible to other handlers
\* only once the loop runs them, so its effects are applied on return.
StoreClients == {"c1", "c2"}

StoreAudio == Audio(TRUE, Feats(5, 10, 100, 100, 1000), 1)

\* A valid request of client c is received: the event loop must be free to
\* start its handler.
ReceiveFrom(c) ==
    /\ loop = 0
    /\ nextId <= MaxRequests
    /\ Detect(c, BearerWord \o Space \o API_KEY, None, <<101, 110>>, Payload(134, 2, 0, TRUE))
    /\ UNCHANGED loop

StoreReceive == \E c \in StoreClients : ReceiveFrom(c)

\* The handler of r resumes and runs up to db.commit(), which has not
\* returned yet.
StoreCall ==
    /\ loop = 0
    /\ \E r \in inflight : loop' = r.id
    /\ UNCHANGED <<now, MODEL_AVAILABLE, clients, metrics, db, tmpfiles, inflight, nextId,
                   last, admittedLog, call, reply, latencies>>

\* db.commit() returns or raises, and the handler runs to its end.
StoreReturn ==
    /\ loop # 0
    /\ \E r \in inflight : r.id = loop /\ Extract(r, StoreAudio)
    /\ loop' = 0

NextStore == StoreReceive \/ StoreCall \/ StoreReturn

SpecStore == Init /\ [][NextStore]_vars

\* The latency list filling up and turning over: one client sends valid
\* requests one after the other, each staged, classified AI_GENERATED (by
\* the heuristic, or by the model at 0.873) and stored.  An extraction
\* takes 1 s; that of the first request and of those after the thousandth
\* may take 2 s.
RingAudios(id) ==
    {Audio(TRUE, Feats(5, 10, 100, 100, 1000), 1)}
    \cup (IF id = 1 \/ id > MAX_REQUEST_TIMES
          THEN {Audio(TRUE, Feats(5, 10, 100, 100, 1000), 2)} ELSE {})

RingReceive ==
    /\ nextId <= MaxRingRequests
    /\ inflight = {}
    /\ Detect("c1", BearerWord \o Space \o API_KEY, None, <<101, 110>>, Payload(134, 2, 0, TRUE))
    /\ inflight' # {}
    /\ UNCHANGED loop

RingResume ==
    /\ \E r \in inflight : \E audio \in RingAudios(r.id) : Extract(r, audio)
    /\ last'.status = 200
    /\ last'.ext.store = "ok"
    /\ last'.ext.ml \in {NoMl, [raises |-> FALSE, proba |-> 873000]}
    /\ UNCHANGED loop

NextRing == RingReceive \/ RingResume

SpecRing == Init /\ [][NextRing]_vars

\* Two clients and one rate limiter: c1 sends requests up to and beyond its
\* ceiling, c2 sends a few, in any order; every request carries a wrong key
\* and ends in the step that receives it.  The clock is at 0 or at 60 s.
IsoClients == {"c1", "c2"}

IsoReceive ==
    /\ nextId <= MaxRateRequests
    /\ \E c \in IsoClients :
          /\ c = "c2" => Len(WindowOf(admittedLog, "c2")) < MaxOther
          /\ Detect(c, BearerWord \o Space \o WrongKey, None, <<101, 110>>,
                    Payload(134, 2, 0, TRUE))
    /\ UNCHANGED loop

IsoClock == now < RATE_WINDOW /\ Tick(RATE_WINDOW - now)

NextIsolate == IsoReceive \/ IsoClock

SpecIsolate == Init /\ [][NextIsolate]_vars

\* One client spending its quota on requests that are rejected: with a
\* wrong key, with no credentials, with the valid key and an unsupported
\* language, or with the valid key and a payload of 99 bytes, in any order.
QuotaRequests ==
    {Request(BearerWord \o Space \o WrongKey, None, <<101, 110>>, Payload(134, 2, 0, TRUE)),
     Request(None, None, <<101, 110>>, Payload(134, 2, 0, TRUE)),
     Request(BearerWord \o Space \o API_KEY, None, <<102, 114>>, Payload(134, 2, 0, TRUE)),
     Request(None, API_KEY, <<101, 110>>, Payload(132, 0, 0, TRUE))}

QuotaReceive ==
    /\ nextId <= MaxRateRequests
    /\ \E rq \in QuotaRequests :
          Detect("c1", rq.header_value, rq.x_api_key, rq.language, rq.payload)
    /\ UNCHANGED loop

NextQuota == QuotaReceive

SpecQuota == Init /\ [][NextQuota]_vars

\* The heuristic strategy as a function: any number of calls, up to
\* MaxCalls, each on features of the grid (f0_var up to infinite, every
\* term below, at and above the value that saturates it).
HeuristicGrid ==
    {Feats(d, f, z, sv, fl) :
        d \in {5, 300}, f \in {0, 10, 250, 500, 1000, Infinity},
        z \in {0, 100, 2500, 5000, 10000}, sv \in {0, 100, 5000, 10000},
        fl \in {0, 1000, 5040, 10000, 12000}}

NextHeuristic == call.n < MaxCalls /\ \E feats \in HeuristicGrid : Classify(feats)

SpecHeuristic == Init /\ [][NextHeuristic]_vars

\* =============================================================== claims
Done == last.id > 0

\* The request presents the key the way _check_api_key accepts it.
Authenticated(req) == _check_api_key(req.header_value, req.x_api_key) = "True"

\* Neither header carries the secret: no word of the Authorization header
\* and not the X-Api-Key header.
WrongOrMissingKey(req) ==
    /\ \A i \in 1..Len(split(req.header_value)) : split(req.header_value)[i] # API_KEY
    /\ req.x_api_key # API_KEY

\* The language codes as the specification lists them: en, ta, hi, ml, te.
ListedLanguages == {<<101, 110>>, <<116, 97>>, <<104, 105>>, <<109, 108>>, <<116, 101>>}

Decodes(req) == b64decode(req.payload).ok
DecodedLen(req) == b64decode(req.payload).len

\* The admitted requests of client c that are less than 60 s old at time t.
RecentlyAdmitted(c, t) ==
    Cardinality({i \in 1..Len(WindowOf(admittedLog, c)) : t - WindowOf(admittedLog, c)[i] < 60})

\* The client of the request received in this step.
ReceivedClient ==
    IF last'.id = nextId THEN last'.client
    ELSE (CHOOSE r \in inflight' : r.id = nextId).client

\* C1: a request is admitted by the rate limiter iff fewer than 100
\* earlier admitted requests of its client are less than 60 s old when it
\* arrives; it is answered 429 iff it is not admitted.
C1_RateLimit ==
    [][nextId' = nextId + 1 =>
        LET c == ReceivedClient
            recent == RecentlyAdmitted(c, now)
        IN  /\ (last'.id = nextId /\ last'.status = 429) <=> (recent >= 100)
            /\ (WindowOf(admittedLog', c) = Append(WindowOf(admittedLog, c), now))
                  <=> (recent < 100)
            /\ (WindowOf(admittedLog', c) = WindowOf(admittedLog, c)) <=> (recent >= 100)]_vars

\* C1 witness: 100 requests admitted, the 101st answered 429, and a
\* request 60 s after them admitted again.
C1_Witness ==
    /\ last.id = 102 /\ last.status = 401 /\ last.admitted
    /\ metrics.failed_requests = 1
    /\ Len(WindowOf(admittedLog, "c1")) = 101
    /\ now = 60

\* C2 (as stated): a request with wrong or missing credentials is answered
\* 401, whatever its payload and whatever preceded it.
C2_WrongKeyIs401 == (Done /\ WrongOrMissingKey(last.req)) => last.status = 401

\* A request the claim calls valid: valid key, listed language, payload
\* decoding to 100 bytes .. 2 MiB, audio decoding to 0.5 s .. 30 s.
ValidRequest(resp) ==
    /\ Authenticated(resp.req)
    /\ resp.req.language \in ListedLanguages
    /\ Decodes(resp.req)
    /\ DecodedLen(resp.req) >= 100 /\ DecodedLen(resp.req) <= 2 * 1024 * 1024
    /\ resp.ext.started /\ resp.ext.decodable
    /\ resp.ext.duration >= 5 /\ resp.ext.duration <= 300

\* C3 (as stated): a valid request the rate limiter admits is answered 200
\* with a result HUMAN or AI_GENERATED.
C3_ValidIs200 ==
    (Done /\ last.admitted /\ ValidRequest(last)) =>
        (last.status = 200 /\ last.result \in {"HUMAN", "AI_GENERATED"})

\* C4 (as stated): in every 200 response and every stored detection the
\* rounded confidence is in [0, 1] and the label is AI_GENERATED iff that
\* confidence is >= 0.5.
C4_LabelIsThreshold ==
    /\ (Done /\ last.status = 200) =>
          /\ last.confidence >= 0 /\ last.confidence <= 1000
          /\ (last.result = "AI_GENERATED") <=> (last.confidence >= 500)
    /\ \A row \in db :
          /\ row.confidence >= 0 /\ row.confidence <= 1000
          /\ (row.result = "AI_GENERATED") <=> (row.confidence >= 500)

\* C5 (as stated): a request whose extraction runs longer than 10 s ends
\* 400, never 200 or 500.
C5_TimeoutIs400 == (Done /\ last.ext.started /\ last.ext.elapsed > 10) => last.status = 400

\* C6 (as stated): the temporary file of a request does not exist once the
\* request has reached a terminal state: every file on disk belongs to a
\* request still in flight.
C6_NoTempFileLeft == \A f \in tmpfiles : \E r \in inflight : r.temp_file = f

\* C7 (as stated): once a request is classified, a failure of add, commit
\* or the rollback after them leaves the response 200 with the result and
\* confidence of the classification.
C7_StoreFailureKeeps200 ==
    (Done /\ last.ext.classified /\ last.ext.store # "ok") =>
        /\ last.status = 200
        /\ last.result = last.ext.label
        /\ last.confidence = round3(last.ext.raw)

\* The confidence of the claim, in millionths:
\* clamp(0.45(1 - min(f0v,500)/500) + 0.25(1 - min(z/0.5,1))
\*       + 0.20(1 - min(sv/5000,1)) + 0.10(1 - min(fl,1)), 0, 1)
C8_Expected(f) ==
    LET sum == 900 * (500 - Min(f.f0_var, 500)) + 50 * (5000 - Min(f.zcr_mean, 5000))
               + 40 * (5000 - Min(f.spec_centroid_var, 5000))
               + 10 * (10000 - Min(f.flatness_mean, 10000))
    IN  IF sum < 0 THEN 0 ELSE IF sum > 1000000 THEN 1000000 ELSE sum

\* C8: for all features >= 0, an infinite pitch variance included, the
\* heuristic returns the confidence of the formula, whatever the duration
\* and whatever was called before; f0v=10, z=0.01, sv=100, fl=0.1 gives
\* 0.972 and AI_GENERATED.
C8_Heuristic ==
    call.n > 0 =>
        /\ call.confidence = C8_Expected(call.feats)
        /\ (call.label = "AI_GENERATED") <=> (C8_Expected(call.feats) >= 500000)
        /\ (/\ call.feats.f0_var = 10 /\ call.feats.zcr_mean = 100
            /\ call.feats.spec_centroid_var = 100 /\ call.feats.flatness_mean = 1000)
              => (call.confidence = 972000 /\ round3(call.confidence) = 972
                  /\ call.label = "AI_GENERATED")

\* C8 witness: a second call, on the features of the example at the
\* longer duration, has returned 0.972.
C8_Witness ==
    /\ call.n = 2 /\ call.feats = Feats(300, 10, 100, 100, 1000)
    /\ call.confidence = 972000 /\ call.label = "AI_GENERATED"

\* C9 (as stated): an authenticated, admitted request whose language is
\* not one of en, ta, hi, ml, te is rejected 400 as unsupported language.
C9_ListedLanguageOnly ==
    (Done /\ last.admitted /\ Authenticated(last.req)
          /\ last.req.language \notin ListedLanguages) =>
        (last.status = 400 /\ last.detail = "Unsupported language")

\* C9 (amended): the language is compared lower-cased.  An authenticated,
\* admitted request whose lower-cased language is not listed is rejected
\* 400 as unsupported language, whatever its payload; one with a listed
\* language and a payload that does not decode is rejected 400 as
\* malformed base64, whatever its size.
C9_ValidationOrder ==
    (Done /\ last.admitted /\ Authenticated(last.req)) =>
        /\ lower(last.req.language) \notin ListedLanguages =>
              (last.status = 400 /\ last.detail = "Unsupported language")
        /\ (lower(last.req.language) \in ListedLanguages /\ ~Decodes(last.req)) =>
              (last.status = 400 /\ last.detail = "audio_base64 must be valid base64")

\* C9 witness: "fr" with a payload that does not decode, rejected as
\* unsupported language.
C9_Witness ==
    /\ Done /\ last.admitted /\ Authenticated(last.req)
    /\ last.req.language = <<102, 114>> /\ ~Decodes(last.req)
    /\ last.status = 400 /\ last.detail = "Unsupported language"

\* C10: an authenticated, admitted request with a supported language and a
\* payload decoding to L bytes passes the size check iff 100 <= L <= 2 MiB;
\* L > 2 MiB is rejected 400 as exceeding the size, L < 100 is rejected 400
\* as too small, and neither starts an extraction.
C10_SizeBounds ==
    /\ (Done /\ last.admitted /\ Authenticated(last.req)
             /\ lower(last.req.language) \in ListedLanguages /\ Decodes(last.req)) =>
          LET L == DecodedLen(last.req)
              reachedExtract == \E i \in 1..Len(last.stages) : last.stages[i] = "extract"
          IN  /\ L > 2 * 1024 * 1024 =>
                    (last.status = 400 /\ last.detail = "Audio file exceeds 2097152 bytes")
              /\ L < 100 => (last.status = 400 /\ last.detail = "Audio file is too small")
              /\ reachedExtract <=> (100 <= L /\ L <= 2 * 1024 * 1024)
              /\ ~reachedExtract => (~last.ext.started /\ last.req.staging = "none")
    /\ \A r \in inflight : 100 <= r.nbytes /\ r.nbytes <= 2 * 1024 * 1024

\* C10 witness: a payload of exactly 2 MiB has passed the size check and
\* the request was answered 200.
C10_Witness ==
    /\ Done /\ last.admitted /\ Authenticated(last.req)
    /\ DecodedLen(last.req) = 2 * 1024 * 1024
    /\ last.status = 200

\* C11: with the trained model selected at startup, every classified
\* request has attempted the model; one on which the model raised carries
\* the label and the confidence the heuristic gives for its features and
\* is answered 200 with them (unless the rollback of a failed store raises),
\* one on which it answered carries the model's probability; and no step
\* changes the strategy selected at startup.
C11_Fallback ==
    /\ [](   (Done /\ last.ext.classified /\ MODEL_AVAILABLE) =>
               /\ last.ext.ml \in MlOutcomes
               /\ last.ext.ml.raises =>
                     /\ last.ext.raw = C8_Expected(last.ext.feats)
                     /\ (last.ext.label = "AI_GENERATED")
                           <=> (C8_Expected(last.ext.feats) >= 500000)
                     /\ \E i \in 1..Len(last.stages) : last.stages[i] = "persist"
                     /\ last.ext.store # "rollback_fails" =>
                           /\ last.status = 200
                           /\ last.result = last.ext.label
                           /\ last.confidence = round3(C8_Expected(last.ext.feats))
               /\ ~last.ext.ml.raises =>
                     /\ last.ext.raw = last.ext.ml.proba
                     /\ (last.ext.label = "AI_GENERATED") <=> (last.ext.ml.proba >= 500000))
    /\ [][MODEL_AVAILABLE' = MODEL_AVAILABLE]_vars

\* C11 witness: the model raised on request 1, which was answered from the
\* heuristic (0.972) and stored; request 2, after it, was answered from
\* the model (0.873).
C11_Witness ==
    /\ MODEL_AVAILABLE
    /\ \E row \in db : row.id = 1 /\ row.confidence = 972 /\ row.result = "AI_GENERATED"
    /\ last.id = 2 /\ last.status = 200 /\ ~last.ext.ml.raises
    /\ last.ext.ml.proba = 873000 /\ last.confidence = 873
    /\ Len(latencies) = 2

\* The identifiers of the requests in S.
Ids(S) == {r.id : r \in S}

\* The requests that leave the handler in this step: in flight or received
\* before it, not in flight after it.
Answered == (Ids(inflight) \cup (IF nextId' > nextId THEN {nextId} ELSE {})) \ Ids(inflight')

\* C12: every request received is eventually answered; a request is
\* answered once, by the step in which it stops being in flight, with 200
\* and a result or with 429, 401, 400 or 500 and none; and a request that
\* was answered is never in flight again.
C12_Terminates ==
    /\ [](Done => /\ last.status \in {200, 429, 401, 400, 500}
                  /\ (last.status = 200) <=> (last.result \in {"HUMAN", "AI_GENERATED"})
                  /\ last.id < nextId
                  /\ last.id \notin Ids(inflight))
    /\ [](\A r1, r2 \in inflight : r1.id = r2.id => r1 = r2)
    /\ [][/\ Ids(inflight') \subseteq Ids(inflight) \cup {nextId}
          /\ Answered = IF last' # last THEN {last'.id} ELSE {}]_vars
    /\ \A id \in 1..MaxRequests :
          (nextId > id) ~> (nextId > id /\ id \notin Ids(inflight))

\* C12 witness: two requests were in flight together and both have been
\* answered, request 1 last and with 500 after an exception in its last
\* stage.
C12_Witness ==
    /\ nextId = 3 /\ inflight = {} /\ last.id = 1 /\ last.status = 500
    /\ metrics.total_requests = 2 /\ metrics.successful_detections = 2

\* The stages of the pipeline in the order of the claim.
Pipeline == <<"rate_limit", "auth", "validate", "extract", "classify", "metrics",
              "persist", "respond">>

Reached(resp, stage) == \E i \in 1..Len(resp.stages) : resp.stages[i] = stage

\* The payload of the request passes language, decoding and size checks.
PassesValidation(req) ==
    /\ lower(req.language) \in ListedLanguages
    /\ Decodes(req)
    /\ 100 <= DecodedLen(req) /\ DecodedLen(req) <= 2 * 1024 * 1024

\* C13: the stages a request has executed are an initial part of the
\* pipeline order; each stage was reached iff every stage before it let the
\* request pass (admitted, then authenticated, then valid, then audio
\* extracted within the duration bounds); and the effects of a stage
\* (suspension and staged file, extraction, classification, success
\* counters and latency, detection row, 200 response) occur only in a request
\* that reached that stage.
C13_StageOrder ==
    /\ [](Done =>
            /\ Len(last.stages) >= 1 /\ Len(last.stages) <= Len(Pipeline)
            /\ \A i \in 1..Len(last.stages) : last.stages[i] = Pipeline[i]
            /\ Reached(last, "auth") <=> last.admitted
            /\ (last.status = 429) <=> ~last.admitted
            /\ Reached(last, "validate") <=> (last.admitted /\ Authenticated(last.req))
            /\ Reached(last, "extract")
                  <=> (last.admitted /\ Authenticated(last.req) /\ PassesValidation(last.req))
            /\ last.req.staging # "none" <=> Reached(last, "extract")
            /\ last.ext.started => (Reached(last, "extract") /\ last.req.staging = "ok")
            /\ Reached(last, "classify")
                  <=> (/\ last.ext.started /\ last.ext.decodable
                       /\ last.ext.duration >= 5 /\ last.ext.duration <= 300)
            /\ last.ext.classified <=> Reached(last, "classify")
            /\ Reached(last, "metrics") <=> Reached(last, "classify")
            /\ Reached(last, "persist") <=> Reached(last, "classify")
            /\ last.ext.store # "none" <=> Reached(last, "persist")
            /\ Reached(last, "respond") <=> (last.status = 200)
            /\ (\E row \in db : row.id = last.id) => last.status = 200)
    /\ [](\A r \in inflight :
            /\ r.id \in tmpfiles
            /\ _check_api_key(r.req.header_value, r.req.x_api_key) = "True"
            /\ PassesValidation(r.req))
    /\ [][last' # last =>
            /\ (\/ metrics'.successful_detections # metrics.successful_detections
                \/ metrics'.by_language # metrics.by_language
                \/ metrics'.by_result # metrics.by_result
                \/ metrics'.request_times # metrics.request_times)
                  => Reached(last', "metrics")
            /\ db' # db => (Reached(last', "persist") /\ db' \ db \subseteq {row \in db' : row.id = last'.id})
            /\ metrics'.auth_failures # metrics.auth_failures
                  => last'.stages = <<"rate_limit", "auth">>]_vars

\* C13 witness: a request rejected in the extraction stage (audio of 0.4 s)
\* after passing the three stages before it; nothing was classified,
\* counted as a success or stored.
C13_Witness ==
    /\ Done /\ last.status = 400 /\ last.detail = "Invalid audio"
    /\ last.ext.duration = 4
    /\ last.stages = <<"rate_limit", "auth", "validate", "extract">>
    /\ metrics.successful_detections = 0 /\ db = {} /\ latencies = <<>>

\* The detection rows of request id.
RowsOf(id) == {row \in db : row.id = id}

\* C14 (as stated): every request answered 200 has exactly one detection
\* row under its identifier.
C14_OneRowPer200 == (Done /\ last.status = 200) => Cardinality(RowsOf(last.id)) = 1

\* C14 (amended): a request has at most one detection row, under its own
\* identifier; it has one iff it was answered 200 and db.add and db.commit
\* succeeded, and the row holds the language, result and confidence of the
\* response; a request not answered 200 creates none; and no step removes
\* or changes a row.
C14_AtMostOneRow ==
    /\ [](\A r1, r2 \in db : r1.id = r2.id => r1 = r2)
    /\ [](\A row \in db : row.id >= 1 /\ row.id < nextId /\ row.id \notin Ids(inflight))
    /\ [](Done =>
            /\ Cardinality(RowsOf(last.id)) <= 1
            /\ (RowsOf(last.id) # {}) <=> (last.status = 200 /\ last.ext.store = "ok")
            /\ \A row \in RowsOf(last.id) :
                  /\ row.language = lower(last.req.language)
                  /\ row.result = last.result
                  /\ row.confidence = last.confidence)
    /\ [][/\ db \subseteq db'
          /\ db' # db => (/\ last' # last /\ last'.status = 200
                          /\ Cardinality(db' \ db) = 1
                          /\ \A row \in db' \ db : row.id = last'.id)
          /\ (last' # last /\ last'.status # 200) => db' = db]_vars

\* C14 witness: request 1 was answered 200 and stored; request 2 was
\* answered 200 while its commit failed: the row of request 1 is still the
\* only one.
C14_Witness ==
    /\ last.id = 2 /\ last.status = 200 /\ last.ext.store = "commit_fails"
    /\ Cardinality(db) = 1 /\ RowsOf(1) # {} /\ RowsOf(2) = {}
    /\ metrics.successful_detections = 2

\* C15: a request whose audio decodes to a duration below 0.5 s or above
\* 30 s is rejected 400 as invalid audio, which is not the detail of a
\* timeout, and is not classified; one whose audio decodes to a duration d
\* with 0.5 <= d <= 30 is classified; so every classified request has such
\* a d.
C15_DurationBounds ==
    /\ (Done /\ last.ext.started /\ last.ext.decodable) =>
          /\ (last.ext.duration < 5 \/ last.ext.duration > 300) =>
                /\ last.status = 400
                /\ last.detail = "Invalid audio"
                /\ last.detail # "Audio processing timeout"
                /\ ~last.ext.classified
          /\ (last.ext.duration >= 5 /\ last.ext.duration <= 300) =>
                (last.ext.classified /\ last.ext.feats.duration = last.ext.duration)
    /\ (Done /\ last.ext.classified) =>
          (last.ext.decodable /\ last.ext.duration >= 5 /\ last.ext.duration <= 300)

\* C15 witness: audio of exactly 30 s was classified and answered 200,
\* after audio of 30.1 s was refused.
C15_Witness ==
    /\ Done /\ last.id = 2 /\ last.ext.duration = 300 /\ last.ext.classified
    /\ last.status = 200
    /\ metrics.failed_requests = 1 /\ metrics.successful_detections = 1
    /\ metrics.request_times = <<11>>

\* C16 (as stated): GET /metrics answers 200 with the snapshot when the
\* request carries the valid key and 401 with no metrics otherwise; GET
\* /health answers 200 with status ok and the model selected at startup
\* whatever the credentials.
C16_MetricsNeedsKey ==
    /\ reply.endpoint = "metrics" =>
          IF _check_api_key(reply.header_value, reply.x_api_key) = "True"
          THEN reply.status = 200 /\ DOMAIN reply.body # {}
          ELSE reply.status = 401 /\ DOMAIN reply.body = {}
    /\ reply.endpoint = "health" =>
          /\ reply.status = 200 /\ reply.body.status = "ok"
          /\ reply.body.model = IF MODEL_AVAILABLE THEN "ml" ELSE "heuristic"

\* C17: whatever the interleaving of POST /detect and GET handlers,
\* total_requests is the number of requests received (so it has grown by n
\* once n requests are answered), and a snapshot /metrics returns holds the
\* counters of the state in which the handler ran, all of them from that one
\* state, which the handler leaves unchanged.
C17_NoLostUpdate ==
    /\ [](metrics.total_requests = nextId - 1)
    /\ [][(reply'.n # reply.n /\ reply'.endpoint = "metrics" /\ reply'.status = 200) =>
            /\ metrics' = metrics
            /\ reply'.body.total_requests = metrics.total_requests
            /\ reply'.body.successful_detections = metrics.successful_detections
            /\ reply'.body.failed_requests = metrics.failed_requests
            /\ reply'.body.auth_failures = metrics.auth_failures
            /\ reply'.body.by_language = metrics.by_language
            /\ reply'.body.by_result = metrics.by_result
            /\ reply'.body.uptime_seconds = now - metrics.last_reset]_vars

\* C17 witness: a snapshot taken while one request was suspended in its
\* extraction and another had been answered 200: 2 requests received, 1
\* detection.
C17_Witness ==
    /\ reply.endpoint = "metrics" /\ reply.status = 200 /\ reply.n = 2
    /\ reply.body.total_requests = 2 /\ reply.body.successful_detections = 1
    /\ reply.body.failed_requests = 0 /\ reply.body.auth_failures = 0
    /\ Cardinality(inflight) = 1 /\ metrics.total_requests = 2

\* The times at which requests of client c were admitted.
AdmittedTimes(c) == {WindowOf(admittedLog, c)[i] : i \in 1..Len(WindowOf(admittedLog, c))}

\* The requests of client c admitted in the 60 s that end at t: later than
\* t - 60, not later than t.
AdmittedWithin(c, t) ==
    Cardinality({i \in 1..Len(WindowOf(admittedLog, c)) :
                    /\ WindowOf(admittedLog, c)[i] > t - 60
                    /\ WindowOf(admittedLog, c)[i] <= t})

\* C18: with requests of one client suspended in their extraction while
\* further requests of that client are checked, the client's window never
\* holds more than 100 timestamps, it holds exactly the client's admitted
\* requests that were less than 60 s old at its last check, and no 60 s
\* hold more than 100 admitted requests of the client.
C18_WindowAtomic ==
    /\ Len(WindowOf(clients, "c1")) <= 100
    /\ \A t \in AdmittedTimes("c1") : AdmittedWithin("c1", t) <= 100
    /\ LET log == WindowOf(admittedLog, "c1")
           w == WindowOf(clients, "c1")
       IN  /\ Len(w) <= Len(log)
           /\ w = SubSeq(log, Len(log) - Len(w) + 1, Len(log))

\* C18 witness: the window of the client holds 100 timestamps, its last
\* request was refused 429, and two of its admitted requests are still
\* suspended in their extraction.
C18_Witness ==
    /\ Len(WindowOf(clients, "c1")) = 100
    /\ Done /\ last.status = 429
    /\ Cardinality(inflight) = 2
    /\ now = 0

\* C19 (as stated): while the persistence call of one request has not
\* returned, a request of another client can be received, rate-limit
\* checked and counted.
C19_OthersProceed ==
    \A r \in inflight :
        (r.id = loop /\ nextId <= MaxRequests) =>
            \E c \in StoreClients \ {r.client} : ENABLED ReceiveFrom(c)

\* C20: the list of recorded latencies never holds more than 1000 samples,
\* and with k requests classified so far it is the latencies of the last
\* min(k, 1000) of them, in the order in which they completed.
C20_LatencyRing ==
    LET k == Len(latencies)
        kept == Min(k, 1000)
    IN  /\ Len(metrics.request_times) <= 1000
        /\ k = metrics.successful_detections
        /\ Len(metrics.request_times) = kept
        /\ metrics.request_times = SubSeq(latencies, k - kept + 1, k)

\* C20 witness: 1001 requests classified, the first in 2 s and the last in
\* 2 s: the list holds 1000 samples, the sample of the first request is
\* gone and that of the last one is at its end.
C20_Witness ==
    /\ Len(latencies) = 1001 /\ latencies[1] = 2 /\ latencies[1001] = 2
    /\ Len(metrics.request_times) = 1000
    /\ metrics.request_times[1] = 1 /\ metrics.request_times[1000] = 2

\* C21: the check of a request of client c leaves the window of every
\* other client as it was, and refuses the request iff 100 or more admitted
\* requests of c itself are less than 60 s old; so a client that has sent
\* fewer than 100 requests is never answered 429, whatever the other client
\* has sent.
C21_Isolation ==
    /\ [][nextId' = nextId + 1 =>
            LET c == ReceivedClient
            IN  /\ \A d \in IsoClients \ {c} :
                      /\ WindowOf(clients', d) = WindowOf(clients, d)
                      /\ d \in DOMAIN clients' <=> d \in DOMAIN clients
                /\ (last'.status = 429) <=> (RecentlyAdmitted(c, now) >= 100)]_vars
    /\ [](Done /\ last.client = "c2" => last.status = 401)
    /\ []("c2" \in DOMAIN clients => Len(clients["c2"]) <= MaxOther)

\* C21 witness: c1 is at its ceiling and has been refused, and a request
\* of c2 after that was admitted.
C21_Witness ==
    /\ Len(WindowOf(clients, "c1")) = 100
    /\ metrics.failed_requests = 1
    /\ Done /\ last.client = "c2" /\ last.status = 401 /\ last.admitted
    /\ last.id = 102 /\ now = 0

\* C22 (as stated): every request increments total_requests once and
\* exactly one outcome counter, so with no request in flight total_requests
\* is the sum of successful_detections, failed_requests and auth_failures;
\* a 401 counts in auth_failures and not in failed_requests; and
\* successful_detections never exceeds total_requests.
C22_CountersAddUp ==
    /\ inflight = {} =>
          metrics.total_requests = metrics.successful_detections
                                      + metrics.failed_requests + metrics.auth_failures
    /\ metrics.successful_detections <= metrics.total_requests
    /\ metrics.total_requests = nextId - 1

\* C23: a request that arrives while fewer than 100 admitted requests of
\* its client are less than 60 s old has its arrival time appended to the
\* client's window whether it then ends 401 or 400, so rejected requests use
\* up the quota; a request answered 429 leaves the window and auth_failures
\* as they were and counts as failed, with valid credentials as well as
\* without.
C23_QuotaBeforeAuth ==
    /\ [][nextId' = nextId + 1 =>
            LET w == WindowOf(clients, "c1")
                w2 == WindowOf(clients', "c1")
            IN  /\ RecentlyAdmitted("c1", now) < 100 =>
                      /\ w2 = Append(w, now)
                      /\ last'.status \in {401, 400}
                      /\ last'.admitted
                      /\ (last'.status = 401) <=> ~Authenticated(last'.req)
                      /\ (last'.status = 401) =>
                            /\ metrics'.auth_failures = metrics.auth_failures + 1
                            /\ metrics'.failed_requests = metrics.failed_requests
                      /\ (last'.status = 400) =>
                            /\ metrics'.failed_requests = metrics.failed_requests + 1
                            /\ metrics'.auth_failures = metrics.auth_failures
                /\ RecentlyAdmitted("c1", now) >= 100 =>
                      /\ last'.status = 429
                      /\ w2 = w
                      /\ metrics'.auth_failures = metrics.auth_failures
                      /\ metrics'.failed_requests = metrics.failed_requests + 1]_vars
    /\ [](Len(WindowOf(clients, "c1")) = Min(nextId - 1, 100))

\* C23 witness: 100 requests without a valid key, each answered 401, have
\* used up the quota: the next request, with the valid key, is answered
\* 429, and so is one with a wrong key, which is not counted as an
\* authentication failure.
C23_Witness ==
    /\ metrics.auth_failures = 100 /\ metrics.failed_requests = 2
    /\ Len(WindowOf(clients, "c1")) = 100
    /\ last.id = 102 /\ last.status = 429 /\ ~Authenticated(last.req)

\* C24: the model_version of every detection row is "heuristic" when no
\* model was loaded at startup and the version of the trained model when
\* one was, also in the row of a request on which the model raised and the
\* heuristic produced the result.
C24_VersionByStartup ==
    /\ \A row \in db :
          /\ (row.model_version = "heuristic") <=> ~MODEL_AVAILABLE
          /\ MODEL_AVAILABLE => row.model_version = "1.0"
    /\ (Done /\ last.status = 200 /\ last.ext.store = "ok") =>
          \E row \in db :
              /\ row.id = last.id
              /\ row.model_version = IF MODEL_AVAILABLE THEN "1.0" ELSE "heuristic"

\* C24 witness: with a model loaded, the model raised on a request, the
\* heuristic classified it (0.972), and its row carries the version of the
\* trained model.
C24_Witness ==
    /\ MODEL_AVAILABLE /\ Done /\ last.status = 200 /\ last.ext.ml.raises
    /\ last.ext.raw = 972000
    /\ \E row \in db : row.id = last.id /\ row.model_version = "1.0" /\ row.confidence = 972

\* The Authorization header has exactly two parts and the first is
\* "bearer" in any case.
WellFormedBearer(req) ==
    /\ Len(split(req.header_value)) = 2
    /\ lower(split(req.header_value)[1]) = <<98, 101, 97, 114, 101, 114>>

\* The decision the claim describes.
C25_Expected(req) ==
    IF WellFormedBearer(req)
    THEN split(req.header_value)[2] = <<107, 49>>
    ELSE req.x_api_key = <<107, 49>>

\* C25: an admitted request passes authentication iff, when its
\* Authorization header is a well-formed Bearer header, the value of that
\* header is the secret (X-Api-Key is not looked at), and otherwise iff its
\* X-Api-Key is the secret; one that does not pass is not answered 200, and
\* a wrong Bearer value with the correct X-Api-Key is answered 401.
C25_BearerFirst ==
    (Done /\ last.admitted) =>
        /\ Reached(last, "validate") <=> C25_Expected(last.req)
        /\ Authenticated(last.req) <=> C25_Expected(last.req)
        /\ ~C25_Expected(last.req) => last.status \in {401, 500}
        /\ (/\ WellFormedBearer(last.req)
            /\ split(last.req.header_value)[2] = <<107, 50>>
            /\ last.req.x_api_key = <<107, 49>>) => last.status = 401

\* C25 witness: "Bearer k2" with X-Api-Key k1 was answered 401, after a
\* request that was not refused for its credentials.
C25_Witness ==
    /\ Done /\ last.id = 2 /\ last.status = 401
    /\ last.req.header_value = BearerWord \o Space \o WrongKey
    /\ last.req.x_api_key = API_KEY
    /\ metrics.auth_failures = 1 /\ metrics.failed_requests = 1

====
